---- MODULE Spec2Model ----
(***************************************************************************)
(* Match timeline and state-reconstruction engine of offside.             *)
(*                                                                         *)
(* GameEngine (src/src/game_engine.py): the event cursor, the playback     *)
(* clock, the speed multiplier and the World State (GameState) driven by    *)
(* update ("Tick"), seek_to_time ("SeekTo") and set_playback_speed.         *)
(* SyntheticGameEngine (src/src/synthetic_engine.py): its clock, cursor,    *)
(* speed and score under update, seek_to_time and set_speed.                *)
(*                                                                         *)
(* MatchState and MatchHistory (src/src/match_state.py): the State Mirror   *)
(* the engine syncs on every update and the History Tracker recording it,   *)
(* inside the engine and as objects a caller copies, writes and queries.    *)
(* _interpolate_position and smooth_interpolation: the position of one      *)
(* player at one time, computed on exact rationals.                         *)
(*                                                                         *)
(* Times are whole seconds; a speed multiplier is kept in tenths           *)
(* (1.0 is 10), so dt * speed is (dt * speed) \div 10.                      *)
(***************************************************************************)
EXTENDS Integers, Sequences, FiniteSets, TLC

VARIABLES
    events,               \* GameEngine.events: the ordered event log
    aborted,              \* GameEngine.__init__ raised: no engine exists
    current_event_index,  \* GameEngine.current_event_index (0-based cursor)
    current_timestamp,    \* GameEngine.current_timestamp
    playback_speed,       \* GameEngine.playback_speed, in tenths
    current_state,        \* GameEngine.current_state (GameState)
    lastOp,               \* the last operation called on the engine
    match_state,          \* GameEngine._match_state: the State Mirror
    match_history,        \* GameEngine._match_history: the History Tracker
    held,                 \* a MatchState a caller got from copy() or
                          \* get_state_at_time(), or NoMirror
    ghost,                \* which containers the objects share, what each
                          \* snapshot held when recorded, whether force was used
    writes,               \* in-place writes made so far by the callers
    call,                 \* a call of a pure function: inputs and result
    syn_events,           \* SyntheticGameEngine.events
    syn_event_index,      \* SyntheticGameEngine.current_event_index
    syn_timestamp,        \* SyntheticGameEngine.current_timestamp, in 1/100 s
    syn_playback_speed,   \* SyntheticGameEngine.playback_speed, in tenths
    syn_state,            \* SyntheticGameEngine.current_state
    syn_pc,               \* "idle", or "seeking" inside seek_to_time's loop
    syn_target            \* target_time of the running seek_to_time

engineVars == <<events, aborted, current_event_index, current_timestamp,
                playback_speed, current_state, lastOp, match_state,
                match_history>>

synVars == <<syn_events, syn_event_index, syn_timestamp, syn_playback_speed,
             syn_state, syn_pc, syn_target>>

objVars == <<held, ghost, writes>>

\* the engine's own fields, as opposed to the wrapper objects it hands out
replayVars == <<events, aborted, current_event_index, current_timestamp,
                playback_speed, current_state>>

vars == <<engineVars, synVars, objVars, call>>

----------------------------------------------------------------------------
(* Bounds of the model *)

MaxLogLen == 3
MaxTime == 3000
SynMaxLogLen == 2
SynMaxTime == 400
MaxWrites == 2
HistCap == 2
HistInterval == 2
HistMaxTime == 2
MaxPerRole == 2
MaxBench == 4

----------------------------------------------------------------------------
(* Roster: dataset.metadata.teams, teams[0] is the home team *)

HomeTeam == "home"
AwayTeam == "away"
NoTeam == "none"
NoPlayer == "none"
NoPeriod == 0
NoEvent == 0

\* player -> team; "hs" and "as" are bench players of the home and the away
\* team (position Substitute/None)
PlayerTeam == [p \in {"h1", "a1", "hs", "as"} |->
                 IF p \in {"a1", "as"} THEN AwayTeam ELSE HomeTeam]

Roster == DOMAIN PlayerTeam

\* players whose position is set and is not "Substitute"
Starters == {"h1", "a1"}

----------------------------------------------------------------------------
(* Events of the log as the loader hands them over *)

Ev(ts, period, team, player, etype, result) ==
    [timestamp |-> ts, period |-> period, team |-> team, player |-> player,
     event_type |-> etype, result |-> result]

EventCatalogue ==
    { Ev(300,  1, AwayTeam, "a1",     "PASS", "COMPLETE"),
      Ev(400,  1, AwayTeam, NoPlayer, "PASS", "NONE"),
      Ev(600,  1, HomeTeam, "h1",     "SHOT", "GOAL"),
      Ev(600,  1, AwayTeam, "a1",     "SHOT", "SAVED"),
      Ev(800,  1, NoTeam,   "h1",     "SHOT", "GOAL"),
      Ev(900,  1, AwayTeam, "a1",     "SHOT", "GOAL"),
      Ev(1200, 1, HomeTeam, "hs",     "PASS", "COMPLETE"),
      Ev(2900, 1, AwayTeam, "a1",     "PASS", "COMPLETE"),
      Ev(100,  2, HomeTeam, "h1",     "SHOT", "GOAL"),
      Ev(100,  NoPeriod, HomeTeam, "h1", "PASS", "COMPLETE") }

\* period_offsets.get(period, 0.0)
PeriodOffset(period) ==
    CASE period = 1 -> 0
      [] period = 2 -> 45 * 60
      [] period = 3 -> 90 * 60
      [] period = 4 -> 105 * 60
      [] period = 5 -> 120 * 60
      [] OTHER -> 0

\* _get_global_time: offset of the event's period plus its local time
GlobalTime(e) == PeriodOffset(e.period) + e.timestamp

\* the log is ordered by period, then by local time
LogOrdered(log) ==
    \A i \in 1..(Len(log) - 1) :
        \/ log[i].period < log[i + 1].period
        \/ /\ log[i].period = log[i + 1].period
           /\ log[i].timestamp <= log[i + 1].timestamp

Logs ==
    { log \in UNION { [1..n -> EventCatalogue] : n \in 0..MaxLogLen } :
        LogOrdered(log) }

\* int(event.period) on a missing period raises inside the constructor
ConstructorRaises(log) == \E i \in 1..Len(log) : log[i].period = NoPeriod

----------------------------------------------------------------------------
(* World State *)

\* _initialize_game_state: kickoff configuration, only starters tracked
InitialGameState ==
    [timestamp |-> 0, period |-> 1, score_home |-> 0, score_away |-> 0,
     possession_team |-> HomeTeam,
     players |-> [p \in Starters |-> FALSE],
     last_event |-> NoEvent]

\* variant: every shot counts as a goal, the result is not looked at
IsGoalAnyShot(e) == e.event_type = "SHOT"

\* _process_event, score branch: a SHOT whose result is GOAL
IsGoal(e) == e.event_type = "SHOT" /\ e.result = "GOAL"

\* variant: the flags of the other players are not cleared first
PlayersAfterKeepFlags(players, e) ==
    IF e.player = NoPlayer
    THEN players
    ELSE [p \in (DOMAIN players) \cup {e.player} |->
            p = e.player \/ (p \in DOMAIN players /\ players[p])]

\* _process_event, possession flags: clear all, then flag the acting player,
\* inserting it when it is not tracked yet
PlayersAfter(players, e) ==
    IF e.player = NoPlayer
    THEN [p \in DOMAIN players |-> FALSE]
    ELSE [p \in (DOMAIN players) \cup {e.player} |-> p = e.player]

\* _process_event applied to World State st for the event at log position i
ProcessEvent(st, e, i) ==
    [timestamp |-> GlobalTime(e),
     period |-> IF e.period # NoPeriod THEN e.period ELSE st.period,
     score_home |-> IF IsGoal(e) /\ e.team = HomeTeam
                    THEN st.score_home + 1 ELSE st.score_home,
     score_away |-> IF IsGoal(e) /\ e.team # HomeTeam
                    THEN st.score_away + 1 ELSE st.score_away,
     possession_team |-> IF e.team # NoTeam THEN e.team
                         ELSE st.possession_team,
     players |-> PlayersAfter(st.players, e),
     last_event |-> i]

\* seek_to_time, rebuild loop: events[:n] applied in order to the kickoff state
RECURSIVE Replay(_, _)
Replay(log, n) ==
    IF n = 0 THEN InitialGameState
    ELSE ProcessEvent(Replay(log, n - 1), log[n], n)

\* seek_to_time, search loop: the 0-based index of the first event whose
\* global time is > t; the cursor keeps its old value when the loop never breaks
SeekIndex(log, t, old) ==
    LET later == {i \in 1..Len(log) : GlobalTime(log[i]) > t}
    IN  IF later = {} THEN old
        ELSE (CHOOSE i \in later : \A j \in later : i <= j) - 1

\* seek_to_time: the World State rebuilt for target t from cursor value old
SeekState(log, t, old) ==
    [Replay(log, SeekIndex(log, t, old)) EXCEPT !.timestamp = t]

\* is_finished
is_finished == current_event_index >= Len(events)

----------------------------------------------------------------------------
(* Inputs of the operations *)

\* frame deltas handed to update, seconds
DTs == {0, 1000}

\* seek targets, seconds
SeekTargets == {0, 500, 700, 1000, 3000}

\* requested speed multipliers in tenths: below, inside and above the range
SpeedRequests == {0, 10, 200}

SpeedMin == 1
SpeedMax == 100

\* max(lo, min(hi, v))
Clamp(lo, hi, v) ==
    LET m == IF v < hi THEN v ELSE hi
    IN  IF m > lo THEN m ELSE lo

----------------------------------------------------------------------------
(* SyntheticGameEngine *)

SynEv(ts, period, etype, team) ==
    [timestamp |-> ts, period |-> period, event_type |-> etype,
     team_id |-> team]

\* synthetic events, times in 1/100 s
SynEventCatalogue ==
    { SynEv(0,   1, "kickoff", HomeTeam),
      SynEv(100, 1, "goal",    HomeTeam),
      SynEv(200, 1, "pass",    AwayTeam),
      SynEv(200, 1, "goal",    AwayTeam) }

\* _generate_events sorts the events by timestamp
SynLogs ==
    { log \in UNION { [1..n -> SynEventCatalogue] : n \in 0..SynMaxLogLen } :
        \A i \in 1..(Len(log) - 1) : log[i].timestamp <= log[i + 1].timestamp }

\* SyntheticGameEngine._initialize_game_state
SynInitialState ==
    [timestamp |-> 0, period |-> 1, score_home |-> 0, score_away |-> 0,
     possession_team |-> HomeTeam]

\* SyntheticGameEngine._process_event
SynProcessEvent(st, e) ==
    [st EXCEPT !.period = e.period,
               !.possession_team = e.team_id,
               !.score_home = IF e.event_type = "goal" /\ e.team_id = HomeTeam
                              THEN @ + 1 ELSE @,
               !.score_away = IF e.event_type = "goal" /\ e.team_id # HomeTeam
                              THEN @ + 1 ELSE @]

\* SyntheticGameEngine.update, event loop: every event due at now is applied
RECURSIVE SynDrain(_, _, _, _)
SynDrain(log, idx, st, now) ==
    IF idx < Len(log) /\ log[idx + 1].timestamp <= now
    THEN SynDrain(log, idx + 1, SynProcessEvent(st, log[idx + 1]), now)
    ELSE [index |-> idx, state |-> st]

\* frame deltas handed to the synthetic update, in tenths of a second
SynDTs == {0, 1, 5}

\* the fixed delta of seek_to_time's fast-forward loop, update(0.1)
SynSeekDT == 1

\* seek targets, in 1/100 s
SynSeekTargets == {0, 100, 250}

\* requested speed multipliers in tenths: below, inside and above the range
SynSpeedRequests == {0, 10, 200}

\* SyntheticGameEngine.set_speed stores the request as it is
SynStoredSpeed(speed) == speed

InitSynEngine ==
    /\ syn_events \in SynLogs
    /\ syn_event_index = 0
    /\ syn_timestamp = 0
    /\ syn_playback_speed = 10
    /\ syn_state = SynInitialState
    /\ syn_pc = "idle"
    /\ syn_target = 0

\* the body of SyntheticGameEngine.update(dt), dt in tenths of a second
SynUpdateBody(dt) ==
    LET now == syn_timestamp + dt * syn_playback_speed
        r   == SynDrain(syn_events, syn_event_index, syn_state, now)
    IN  /\ syn_timestamp' = now
        /\ syn_event_index' = r.index
        /\ syn_state' = [r.state EXCEPT !.timestamp = now]

\* SyntheticGameEngine.update(dt)
SynUpdate(dt) ==
    /\ syn_pc = "idle"
    /\ syn_timestamp + dt * syn_playback_speed <= SynMaxTime
    /\ SynUpdateBody(dt)
    /\ UNCHANGED <<syn_events, syn_playback_speed, syn_pc, syn_target>>

\* SyntheticGameEngine.seek_to_time(target_time), up to the loop
SynSeekStart(t) ==
    /\ syn_pc = "idle"
    /\ IF t < syn_timestamp
       THEN /\ syn_event_index' = 0
            /\ syn_timestamp' = 0
            /\ syn_state' = SynInitialState
       ELSE UNCHANGED <<syn_event_index, syn_timestamp, syn_state>>
    /\ syn_pc' = "seeking"
    /\ syn_target' = t
    /\ UNCHANGED <<syn_events, syn_playback_speed>>

\* SyntheticGameEngine.seek_to_time, one turn of the fast-forward loop
SynSeekStep ==
    /\ syn_pc = "seeking"
    /\ IF syn_timestamp < syn_target
       THEN /\ SynUpdateBody(SynSeekDT)
            /\ UNCHANGED syn_pc
       ELSE /\ syn_pc' = "idle"
            /\ UNCHANGED <<syn_event_index, syn_timestamp, syn_state>>
    /\ UNCHANGED <<syn_events, syn_playback_speed, syn_target>>

\* SyntheticGameEngine.set_speed(speed), also behind set_playback_speed
SynSetSpeed(speed) ==
    /\ syn_pc = "idle"
    /\ syn_playback_speed' = SynStoredSpeed(speed)
    /\ UNCHANGED <<syn_events, syn_event_index, syn_timestamp, syn_state,
                   syn_pc, syn_target>>

----------------------------------------------------------------------------
(* State Mirror: MatchState *)

\* ball_owner_idx = None
NoIdx == -1

\* _match_state = None
NoMirror == [absent |-> TRUE]

\* _cache_player_data: base coordinate of each roster player; h1 and a1 are
\* goalkeepers, hs and as have no position
BaseXY == [p \in Roster |->
             CASE p = "h1" -> <<5, 40>>
               [] p = "a1" -> <<115, 40>>
               [] OTHER    -> <<60, 40>>]

\* the events of the catalogue carry no coordinates: every player timeline is
\* empty and _interpolate_position hands back _get_default_position
WorldXY(p) == BaseXY[p]

\* _interpolate_ball_position on the timeline of the synthetic kickoff sample
BallXY == <<60, 40>>

\* iteration order of GameState.players: starters in roster order, then the
\* players inserted by _process_event
TrackOrder == <<"h1", "a1", "hs", "as">>

PlayerList(players) == SelectSeq(TrackOrder, LAMBDA p : p \in DOMAIN players)

\* positions[:-1]
AllButLast(seq) == SubSeq(seq, 1, Len(seq) - 1)

\* from_game_state and sync: index of the (last) player whose has_ball is set
OwnerOf(ids, players) ==
    LET own == {i \in 1..Len(ids) : players[ids[i]]}
    IN  IF own = {} THEN NoIdx
        ELSE (CHOOSE i \in own : \A j \in own : j <= i) - 1

\* MatchState(): the dataclass defaults
DefaultMatchState ==
    [time |-> 0, period |-> 1, score |-> <<0, 0>>,
     positions |-> [i \in 1..23 |-> <<0, 0>>],
     velocities |-> [i \in 1..23 |-> <<0, 0>>],
     stamina |-> [i \in 1..22 |-> 1],
     team_ids |-> [i \in 1..22 |-> IF i <= 11 THEN 0 ELSE 1],
     ball_owner_idx |-> NoIdx, possession_team |-> 0,
     player_id_to_idx |-> << >>, idx_to_player_id |-> << >>,
     last_event |-> NoEvent]

\* MatchState.from_game_state with the engine's player_team_map
FromGameState(gs) ==
    LET ids == PlayerList(gs.players)
        n   == Len(ids)
    IN  [time |-> gs.timestamp, period |-> gs.period,
         score |-> <<gs.score_home, gs.score_away>>,
         positions |-> [i \in 1..(n + 1) |->
                          IF i <= n THEN WorldXY(ids[i]) ELSE BallXY],
         velocities |-> [i \in 1..(n + 1) |-> <<0, 0>>],
         stamina |-> [i \in 1..n |-> 1],
         team_ids |-> [i \in 1..n |->
                         IF PlayerTeam[ids[i]] = AwayTeam THEN 1 ELSE 0],
         ball_owner_idx |-> OwnerOf(ids, gs.players),
         possession_team |-> IF gs.possession_team = AwayTeam THEN 1 ELSE 0,
         player_id_to_idx |-> [p \in DOMAIN gs.players |->
                                 (CHOOSE i \in 1..n : ids[i] = p) - 1],
         idx_to_player_id |-> [i \in 0..(n - 1) |-> ids[i + 1]],
         last_event |-> gs.last_event]

\* variant: the id is registered but the arrays keep their size
RegisterNoGrowth(m, p, xy) ==
    LET new_idx == Cardinality(DOMAIN m.player_id_to_idx)
    IN  [m EXCEPT
           !.player_id_to_idx =
               [q \in (DOMAIN m.player_id_to_idx) \cup {p} |->
                   IF q = p THEN new_idx ELSE m.player_id_to_idx[q]],
           !.idx_to_player_id =
               [i \in (DOMAIN m.idx_to_player_id) \cup {new_idx} |->
                   IF i = new_idx THEN p ELSE m.idx_to_player_id[i]]]

\* sync_from_game_state, growth branch: an unseen player gets index
\* len(player_id_to_idx) and one more entry in each array, the ball row last
Register(m, p, xy) ==
    LET new_idx == Cardinality(DOMAIN m.player_id_to_idx)
    IN  [m EXCEPT
           !.player_id_to_idx =
               [q \in (DOMAIN m.player_id_to_idx) \cup {p} |->
                   IF q = p THEN new_idx ELSE m.player_id_to_idx[q]],
           !.idx_to_player_id =
               [i \in (DOMAIN m.idx_to_player_id) \cup {new_idx} |->
                   IF i = new_idx THEN p ELSE m.idx_to_player_id[i]],
           !.positions = AllButLast(@) \o <<xy>> \o <<@[Len(@)]>>,
           !.velocities = AllButLast(@) \o << <<0, 0>> >> \o <<@[Len(@)]>>,
           !.stamina = Append(@, 1),
           !.team_ids = Append(@, 0)]

\* sync_from_game_state, body of the loop for one player
SyncPlayer(m, p, has_ball, xy) ==
    LET g   == IF p \in DOMAIN m.player_id_to_idx THEN m
               ELSE Register(m, p, xy)
        idx == g.player_id_to_idx[p]
        old == g.positions[idx + 1]
    IN  [g EXCEPT
           !.velocities[idx + 1] = <<xy[1] - old[1], xy[2] - old[2]>>,
           !.positions[idx + 1] = xy,
           !.ball_owner_idx = IF has_ball THEN idx ELSE @]

RECURSIVE SyncPlayers(_, _, _)
SyncPlayers(m, ids, players) ==
    IF ids = << >> THEN m
    ELSE SyncPlayers(SyncPlayer(m, Head(ids), players[Head(ids)],
                                WorldXY(Head(ids))),
                     Tail(ids), players)

\* MatchState.sync_from_game_state
Sync(m, gs) ==
    LET m0 == [m EXCEPT !.time = gs.timestamp,
                        !.period = gs.period,
                        !.score = <<gs.score_home, gs.score_away>>,
                        !.last_event = gs.last_event,
                        !.ball_owner_idx = NoIdx]
        m1 == SyncPlayers(m0, PlayerList(gs.players), gs.players)
    IN  [m1 EXCEPT !.positions[Len(m1.positions)] = BallXY]

\* MatchState.copy: the value of every field of the new object
CopyMirror(m) == m

\* MatchState.num_players
num_players(m) == Cardinality(DOMAIN m.player_id_to_idx)

\* ndarray.flatten() of an (R, 2) array, each entry divided by den; an entry
\* is kept as the exact ratio <<numerator, denominator>> that np.float32 then
\* rounds entry by entry
Flatten(rows, den) ==
    [k \in 1..(2 * Len(rows)) |->
        <<rows[(k + 1) \div 2][IF k % 2 = 1 THEN 1 ELSE 2], den>>]

\* the five leading features of MatchState.to_vector
VectorHead(m) ==
    << <<m.time, 5400>>, <<m.period, 1>>, <<m.score[1], 1>>,
       <<m.score[2], 1>>, <<m.possession_team, 1>> >>

\* to_vector with the velocities ahead of the positions
to_vectorVelocitiesFirst(m, include_velocities) ==
    VectorHead(m)
        \o (IF include_velocities THEN Flatten(m.velocities, 1) ELSE << >>)
        \o Flatten(m.positions, 120)

\* MatchState.to_vector
to_vector(m, include_velocities) ==
    VectorHead(m)
        \o Flatten(m.positions, 120)
        \o (IF include_velocities THEN Flatten(m.velocities, 1) ELSE << >>)

----------------------------------------------------------------------------
(* History Tracker: MatchHistory *)

\* last_snapshot_time = -inf
NegInf == -1

\* _match_history = None
NoHistory == [absent |-> TRUE]

\* MatchHistory.__init__
NewHistory(max_snapshots, interval) ==
    [max_snapshots |-> max_snapshots, interval |-> interval,
     snapshots |-> << >>, last_snapshot_time |-> NegInf]

EngineMaxSnapshots == 600
EngineInterval == 1

\* _init_match_state: MatchHistory(max_snapshots=600, interval_seconds=1.0)
EngineHistory == NewHistory(EngineMaxSnapshots, EngineInterval)

\* variant: the throttle looks at forward steps only
TooSoonForwardOnly(h, m) ==
    /\ h.last_snapshot_time # NegInf
    /\ 0 <= m.time - h.last_snapshot_time
    /\ m.time - h.last_snapshot_time < h.interval

\* record, throttle test: state.time - last_snapshot_time < interval
TooSoon(h, m) ==
    /\ h.last_snapshot_time # NegInf
    /\ m.time - h.last_snapshot_time < h.interval

\* variant: a full history drops the snapshot just appended
RecordEvictNewest(h, m, force) ==
    IF ~force /\ TooSoon(h, m) THEN h
    ELSE LET snaps == Append(h.snapshots, CopyMirror(m))
         IN  [h EXCEPT !.snapshots = IF Len(snaps) > h.max_snapshots
                                     THEN AllButLast(snaps) ELSE snaps,
                       !.last_snapshot_time = m.time]

\* MatchHistory.record(state, force)
Record(h, m, force) ==
    IF ~force /\ TooSoon(h, m) THEN h
    ELSE LET snaps == Append(h.snapshots, CopyMirror(m))
         IN  [h EXCEPT !.snapshots = IF Len(snaps) > h.max_snapshots
                                     THEN Tail(snaps) ELSE snaps,
                       !.last_snapshot_time = m.time]

Abs(x) == IF x < 0 THEN -x ELSE x

\* variant: the oldest snapshot is taken, whatever its distance
NearestIndexFirst(h, t) == 1

\* get_state_at_time: min(snapshots, key=|s.time - time|), the first minimum
NearestIndex(h, t) ==
    CHOOSE i \in 1..Len(h.snapshots) :
        /\ \A j \in 1..Len(h.snapshots) :
               Abs(h.snapshots[i].time - t) <= Abs(h.snapshots[j].time - t)
        /\ \A j \in 1..(i - 1) :
               Abs(h.snapshots[j].time - t) > Abs(h.snapshots[i].time - t)

\* MatchHistory.clear
Cleared(h) == [h EXCEPT !.snapshots = << >>, !.last_snapshot_time = NegInf]

----------------------------------------------------------------------------
(* GameEngine *)

InitEngine ==
    /\ events \in Logs
    /\ aborted = ConstructorRaises(events)
    /\ current_event_index = 0
    /\ current_timestamp = 0
    /\ playback_speed = 10
    /\ current_state = InitialGameState
    /\ lastOp = [op |-> "init", arg |-> 0]

\* _init_match_state, except branch: the wrapper could not be built
WrapperAbsent ==
    /\ match_state = NoMirror
    /\ match_history = NoHistory

\* _init_match_state: mirror of the kickoff state and an empty history
WrapperAttached ==
    /\ match_state = IF aborted THEN NoMirror
                     ELSE FromGameState(InitialGameState)
    /\ match_history = IF aborted THEN NoHistory ELSE EngineHistory

\* update: the clock after a frame of dt seconds at the current speed
ClockAfter(dt) == current_timestamp + (dt * playback_speed) \div 10

\* variant: the cursor stays where it is after an event has been processed
CursorAfterStays(idx) == idx

\* update: current_event_index += 1
CursorAfter(idx) == idx + 1

\* GameEngine.update(dt), whatever the clock reaches
TickBody(dt) ==
    /\ ~aborted
    /\ LET now == ClockAfter(dt)
           due == /\ current_event_index < Len(events)
                  /\ now >= GlobalTime(events[current_event_index + 1])
           st  == IF due
                  THEN ProcessEvent(current_state,
                                    events[current_event_index + 1],
                                    current_event_index + 1)
                  ELSE current_state
       IN  /\ current_timestamp' = now
           /\ current_event_index' =
                  IF due THEN CursorAfter(current_event_index)
                  ELSE current_event_index
           /\ current_state' = [st EXCEPT !.timestamp = now]
    /\ match_state' = IF match_state = NoMirror THEN match_state
                      ELSE Sync(match_state, current_state')
    /\ match_history' =
           IF match_state = NoMirror \/ match_history = NoHistory
           THEN match_history
           ELSE Record(match_history, match_state', FALSE)
    /\ lastOp' = [op |-> "tick", arg |-> dt]
    /\ UNCHANGED <<events, aborted, playback_speed>>

\* GameEngine.update(dt), the clock kept within MaxTime
Tick(dt) ==
    /\ ClockAfter(dt) <= MaxTime
    /\ TickBody(dt)

\* GameEngine.update(dt), the clock kept within MaxTime once the log is
\* played out
TickToEnd(dt) ==
    /\ ClockAfter(dt) <= MaxTime \/ ~is_finished
    /\ TickBody(dt)

\* GameEngine.seek_to_time(timestamp)
SeekTo(t) ==
    /\ ~aborted
    /\ LET idx == SeekIndex(events, t, current_event_index)
       IN  /\ current_timestamp' = t
           /\ current_event_index' = idx
           /\ current_state' = SeekState(events, t, current_event_index)
    /\ lastOp' = [op |-> "seek", arg |-> t]
    /\ UNCHANGED <<events, aborted, playback_speed, match_state,
                   match_history>>

\* GameEngine.set_playback_speed(speed)
SetPlaybackSpeed(speed) ==
    /\ ~aborted
    /\ playback_speed' = Clamp(SpeedMin, SpeedMax, speed)
    /\ lastOp' = [op |-> "speed", arg |-> speed]
    /\ UNCHANGED <<events, aborted, current_event_index, current_timestamp,
                   current_state, match_state, match_history>>

----------------------------------------------------------------------------
(* MatchState and MatchHistory as objects in a caller's hands *)

\* the mutable containers of a MatchState: four arrays and two dicts
Containers == {"positions", "velocities", "stamina", "team_ids",
               "player_id_to_idx", "idx_to_player_id"}

\* variant: copy() hands over the positions array itself
CopyAliasesPositions == {"positions"}

\* MatchState.copy: the containers the new object still shares with the old
\* one; every array and dict goes through .copy(), their items are immutable
CopyAliases == {}

NoGhost == [held_shares |-> {}, held_origin |-> -1, snap_shares |-> << >>,
            snap_orig |-> << >>, forced |-> FALSE]

NoCall == [fn |-> "none"]

\* nothing has been copied or recorded yet
ObjIdle ==
    /\ held = NoMirror
    /\ ghost = NoGhost
    /\ writes = 0

\* held_origin: 0 is the live mirror, k >= 1 the k-th retained snapshot
HeldSharesLive(f) ==
    /\ f \in ghost.held_shares
    /\ \/ ghost.held_origin = 0
       \/ /\ ghost.held_origin >= 1
          /\ f \in ghost.snap_shares[ghost.held_origin]

\* an in-place write to one container of a mirror, as a caller does it:
\* positions[0] = [30, 40] and the like, player_id_to_idx[id] = idx
Poke(m, f) ==
    CASE f = "positions"  -> [m EXCEPT !.positions[1] = <<30, 40>>]
      [] f = "velocities" -> [m EXCEPT !.velocities[1] = <<1, 1>>]
      [] f = "stamina"    -> [m EXCEPT !.stamina[1] = 0]
      [] f = "team_ids"   -> [m EXCEPT !.team_ids[1] = 1 - @]
      [] f = "player_id_to_idx" ->
             [m EXCEPT !.player_id_to_idx =
                 [q \in (DOMAIN @) \cup {"x9"} |->
                     IF q = "x9" THEN 0 ELSE @[q]]]
      [] f = "idx_to_player_id" ->
             [m EXCEPT !.idx_to_player_id =
                 [i \in (DOMAIN @) \cup {0} |->
                     IF i = 0 THEN "x9" ELSE @[i]]]

\* the containers sync_from_game_state replaces by new arrays (vstack,
\* append) instead of writing into them: the four arrays, when it meets an
\* unseen player
SyncRebinds(m, gs) ==
    IF DOMAIN gs.players \subseteq DOMAIN m.player_id_to_idx THEN {}
    ELSE {"positions", "velocities", "stamina", "team_ids"}

\* the live mirror becomes m2 by writing the containers `inplace` in place
\* and replacing the containers `rebound`: every object sharing a written
\* container sees the write, a replaced container is shared no longer
LiveBecomes(m2, inplace, rebound) ==
    /\ match_state' = m2
    /\ held' = IF held = NoMirror THEN held
               ELSE [f \in DOMAIN held |->
                        IF f \in inplace /\ HeldSharesLive(f)
                        THEN m2[f] ELSE held[f]]
    /\ match_history' =
           IF match_history = NoHistory THEN match_history
           ELSE [match_history EXCEPT !.snapshots =
                   [k \in 1..Len(@) |->
                       [f \in DOMAIN @[k] |->
                           IF f \in inplace /\ f \in ghost.snap_shares[k]
                           THEN m2[f] ELSE @[k][f]]]]
    /\ ghost' = [ghost EXCEPT
                   !.snap_shares = [k \in 1..Len(@) |-> @[k] \ rebound],
                   !.held_shares = IF ghost.held_origin = 0
                                   THEN @ \ rebound ELSE @]

\* the held object becomes c2 by writing the containers `inplace` in place
HeldBecomes(c2, inplace) ==
    /\ held' = c2
    /\ match_state' =
           [f \in DOMAIN match_state |->
               IF f \in inplace /\ HeldSharesLive(f)
               THEN c2[f] ELSE match_state[f]]
    /\ match_history' =
           IF match_history = NoHistory THEN match_history
           ELSE [match_history EXCEPT !.snapshots =
                   [k \in 1..Len(@) |->
                       [f \in DOMAIN @[k] |->
                           IF /\ f \in inplace
                              /\ f \in ghost.held_shares
                              /\ \/ k = ghost.held_origin
                                 \/ /\ HeldSharesLive(f)
                                    /\ f \in ghost.snap_shares[k]
                           THEN c2[f] ELSE @[k][f]]]]
    /\ UNCHANGED ghost

\* state.time = t
MirrorSetTime(t) ==
    /\ match_state # NoMirror
    /\ LiveBecomes([match_state EXCEPT !.time = t], {}, {})
    /\ lastOp' = [op |-> "set_time", arg |-> t]
    /\ UNCHANGED replayVars

\* state.score = (h, a)
MirrorSetScore(sc) ==
    /\ match_state # NoMirror
    /\ LiveBecomes([match_state EXCEPT !.score = sc], {}, {})
    /\ lastOp' = [op |-> "set_score", arg |-> sc]
    /\ UNCHANGED replayVars

\* state.positions[0] = ..., set_player_position and the like
MirrorPoke(f) ==
    /\ match_state # NoMirror
    /\ LiveBecomes(Poke(match_state, f), {f}, {})
    /\ lastOp' = [op |-> "poke", arg |-> f]
    /\ UNCHANGED replayVars

\* state.sync_from_game_state(gs)
MirrorSync(gs) ==
    /\ match_state # NoMirror
    /\ LiveBecomes(Sync(match_state, gs),
                   Containers \ SyncRebinds(match_state, gs),
                   SyncRebinds(match_state, gs))
    /\ lastOp' = [op |-> "sync", arg |-> gs]
    /\ UNCHANGED replayVars

\* v = state.to_vector(include_velocities)
ToVector(include_velocities) ==
    /\ match_state # NoMirror
    /\ call' = [fn |-> "to_vector", include_velocities |-> include_velocities,
                result |-> to_vector(match_state, include_velocities)]
    /\ UNCHANGED <<engineVars, synVars, objVars>>

\* c = state.copy()
TakeCopy ==
    /\ match_state # NoMirror
    /\ held' = CopyMirror(match_state)
    /\ ghost' = [ghost EXCEPT !.held_shares = CopyAliases, !.held_origin = 0]
    /\ lastOp' = [op |-> "copy", arg |-> 0]
    /\ UNCHANGED <<replayVars, match_state, match_history>>

\* c.time = t on the object got from copy() or get_state_at_time()
HeldSetTime(t) ==
    /\ held # NoMirror
    /\ HeldBecomes([held EXCEPT !.time = t], {})
    /\ lastOp' = [op |-> "held_set_time", arg |-> t]
    /\ UNCHANGED replayVars

\* c.positions[0] = ... and the like on that object
HeldPoke(f) ==
    /\ held # NoMirror
    /\ HeldBecomes(Poke(held, f), {f})
    /\ lastOp' = [op |-> "held_poke", arg |-> f]
    /\ UNCHANGED replayVars

\* where the held object's shared containers live once the first `gone`
\* snapshots have left the history
OriginAfterDrop(gone) ==
    IF ghost.held_origin > gone THEN ghost.held_origin - gone
    ELSE IF ghost.held_origin >= 1
            /\ \E f \in Containers : HeldSharesLive(f)
         THEN 0
         ELSE IF ghost.held_origin = 0 THEN 0 ELSE -1

SharesAfterDrop(gone) ==
    IF ghost.held_origin > gone \/ ghost.held_origin = 0
    THEN ghost.held_shares
    ELSE {f \in ghost.held_shares : HeldSharesLive(f)}

\* history.record(state, force); the result is what record returns
HistoryRecord(force) ==
    /\ match_state # NoMirror
    /\ match_history # NoHistory
    /\ LET recorded == force \/ ~TooSoon(match_history, match_state)
           before   == Len(match_history.snapshots)
           gone     == IF recorded /\ before + 1 > match_history.max_snapshots
                       THEN 1 ELSE 0
           keep(seq) == IF gone = 1 THEN Tail(seq) ELSE seq
       IN  /\ match_history' = Record(match_history, match_state, force)
           /\ ghost' =
                  IF ~recorded THEN [ghost EXCEPT !.forced = @ \/ force]
                  ELSE [ghost EXCEPT
                          !.forced = @ \/ force,
                          !.snap_shares = keep(Append(@, CopyAliases)),
                          !.snap_orig = keep(Append(@, match_state)),
                          !.held_origin = OriginAfterDrop(gone),
                          !.held_shares = SharesAfterDrop(gone)]
           /\ lastOp' = [op |-> "record",
                         arg |-> [force |-> force, result |-> recorded,
                                  before |-> before]]
    /\ UNCHANGED <<replayVars, match_state, held>>

\* c = history.get_state_at_time(t)
HistoryGet(t) ==
    /\ match_history # NoHistory
    /\ IF match_history.snapshots = << >>
       THEN /\ held' = NoMirror
            /\ ghost' = [ghost EXCEPT !.held_shares = {}, !.held_origin = -1]
       ELSE LET k == NearestIndex(match_history, t)
            IN  /\ held' = CopyMirror(match_history.snapshots[k])
                /\ ghost' = [ghost EXCEPT !.held_shares = CopyAliases,
                                          !.held_origin = k]
    /\ lastOp' = [op |-> "get", arg |-> t]
    /\ UNCHANGED <<replayVars, match_state, match_history>>

\* history.clear()
HistoryClear ==
    /\ match_history # NoHistory
    /\ match_history' = Cleared(match_history)
    /\ ghost' = [ghost EXCEPT
                   !.snap_shares = << >>, !.snap_orig = << >>,
                   !.held_origin = OriginAfterDrop(Len(ghost.snap_shares)),
                   !.held_shares = SharesAfterDrop(Len(ghost.snap_shares))]
    /\ lastOp' = [op |-> "clear", arg |-> 0]
    /\ UNCHANGED <<replayVars, match_state, held>>

----------------------------------------------------------------------------
(* Position Synthesizer: _interpolate_position *)

(* Coordinates are exact rationals: a position is [x, y, den] and stands   *)
(* for (x / den, y / den).  Samples carry whole coordinates; the tactical   *)
(* position is in hundredths.                                               *)

Pow5(x) == x * x * x * x * x

\* max(0.0, min(1.0, progress)) for progress = n / d
ClampProgress(n, d) == IF n < 0 THEN 0 ELSE IF n > d THEN d ELSE n

\* smooth_interpolation(0, 1, n / d) is EaseNum(n, d) / EaseDen(d)
EaseDen(d) == 2 * Pow5(d)

\* variant: the ease-in branch 16 t^5 is used over the whole range
EaseNumNoEaseOut(n, d) == 32 * Pow5(ClampProgress(n, d))

\* smooth_interpolation: 16 t^5 below one half, 1 - (2 - 2t)^5 / 2 from there
EaseNum(n, d) ==
    LET c == ClampProgress(n, d)
    IN  IF 2 * c < d THEN 32 * Pow5(c)
        ELSE 2 * Pow5(d) - Pow5(2 * d - 2 * c)

\* _get_default_position: the cached base coordinate
get_default_position(p) ==
    IF p \in DOMAIN BaseXY THEN BaseXY[p] ELSE <<60, 40>>

\* the values np.sin(...) * 1.5 and np.cos(...) * 1.5 take, in hundredths;
\* the seed hash(player_id) % 1000 differs from run to run
NoiseValues == {-150, 0, 150}

\* _get_tactical_position, in hundredths, for the ball at `ball` and the
\* noise (nx, ny)
get_tactical_position(p, ball, nx, ny) ==
    LET base     == get_default_position(p)
        is_home  == PlayerTeam[p] = HomeTeam
        offset_x == (ball[1] - 60) * 60
        keeper   == IF is_home THEN base[1] < 15 ELSE base[1] > 105
        shift    == IF keeper THEN (offset_x * 2) \div 10 ELSE offset_x
    IN  <<base[1] * 100 + shift + nx, base[2] * 100 + ny>>

\* a + (b - a) * num / den for a whole and b in hundredths, over 100 * den
BlendToTactical(a, b, num, den) == a * 100 * den + (b - a * 100) * num

\* the index at which the search loop of _interpolate_position sets `after`
\* and breaks, 0 when it runs to the end of the list
AfterIndex(positions, timestamp) ==
    LET later == {i \in 1..Len(positions) : positions[i].t >= timestamp}
    IN  IF later = {} THEN 0
        ELSE CHOOSE i \in later : \A j \in later : i <= j

\* variant: the loop keeps assigning `before` after it has found `after`
BeforeIndexNoBreak(positions, timestamp) ==
    LET early == {i \in 1..Len(positions) : positions[i].t <= timestamp}
    IN  IF early = {} THEN 0
        ELSE CHOOSE i \in early : \A j \in early : j <= i

\* the index `before` is left at: the last sample not later than the
\* timestamp among those the loop visits before its break, 0 for None
BeforeIndex(positions, timestamp) ==
    LET brk   == IF AfterIndex(positions, timestamp) = 0 THEN Len(positions)
                 ELSE AfterIndex(positions, timestamp)
        early == {i \in 1..brk : positions[i].t <= timestamp}
    IN  IF early = {} THEN 0
        ELSE CHOOSE i \in early : \A j \in early : j <= i

\* _interpolate_position(player_id, timestamp) on the player's timeline
\* `positions`; `blend` holds the weights the call multiplies a coordinate
\* difference with, each as <<numerator, denominator>>
interpolate_position(p, positions, timestamp, ball, nx, ny) ==
    LET n      == Len(positions)
        before == BeforeIndex(positions, timestamp)
        after  == AfterIndex(positions, timestamp)
        tac    == get_tactical_position(p, ball, nx, ny)
        b      == positions[before]
        a      == positions[after]
        gap    == a.t - b.t
        since  == timestamp - b.t
    IN  IF n = 0
        THEN [x |-> get_default_position(p)[1],
              y |-> get_default_position(p)[2], den |-> 1, blend |-> {}]
        ELSE IF before = 0 /\ after = 0
        THEN [x |-> tac[1], y |-> tac[2], den |-> 100, blend |-> {}]
        ELSE IF before = 0
        THEN [x |-> positions[1].x, y |-> positions[1].y, den |-> 1,
              blend |-> {}]
        ELSE IF after = 0
        THEN IF since > 5
             THEN LET blend == IF since - 5 > 5 THEN 5 ELSE since - 5
                  IN  [x |-> BlendToTactical(b.x, tac[1], blend, 5),
                       y |-> BlendToTactical(b.y, tac[2], blend, 5),
                       den |-> 500, blend |-> {<<blend, 5>>}]
             ELSE [x |-> b.x, y |-> b.y, den |-> 1, blend |-> {}]
        ELSE IF gap > 10
        THEN IF 5 * since < gap
             THEN [x |-> BlendToTactical(b.x, tac[1], 5 * since, gap),
                   y |-> BlendToTactical(b.y, tac[2], 5 * since, gap),
                   den |-> 100 * gap, blend |-> {<<5 * since, gap>>}]
             ELSE IF 5 * since > 4 * gap
             THEN [x |-> BlendToTactical(a.x, tac[1], 5 * (gap - since), gap),
                   y |-> BlendToTactical(a.y, tac[2], 5 * (gap - since), gap),
                   den |-> 100 * gap, blend |-> {<<5 * (gap - since), gap>>}]
             ELSE [x |-> tac[1], y |-> tac[2], den |-> 100, blend |-> {}]
        ELSE IF gap = 0
        THEN [x |-> b.x, y |-> b.y, den |-> 1, blend |-> {}]
        ELSE [x |-> b.x * EaseDen(gap) + (a.x - b.x) * EaseNum(since, gap),
              y |-> b.y * EaseDen(gap) + (a.y - b.y) * EaseNum(since, gap),
              den |-> EaseDen(gap),
              blend |-> {<<ClampProgress(since, gap), gap>>,
                         <<EaseNum(since, gap), EaseDen(gap)>>}]

\* samples (global time, x, y) of a player's timeline
Sample(t, x, y) == [t |-> t, x |-> x, y |-> y]

SampleCatalogue == <<Sample(100, 50, 40), Sample(106, 60, 40),
                     Sample(106, 65, 45), Sample(121, 70, 30)>>

\* the list is in non-decreasing time order
TimeSorted(positions) ==
    \A i, j \in 1..Len(positions) : i < j => positions[i].t <= positions[j].t

\* the timelines _build_position_timeline can leave for a player: samples of
\* the catalogue, each at most once, in the order the log carries them
Timelines ==
    {tl \in UNION {[1..n -> {SampleCatalogue[k] : k \in 1..Len(SampleCatalogue)}] :
                      n \in 0..Len(SampleCatalogue)} :
        \A i, j \in 1..Len(tl) : i # j => tl[i] # tl[j]}

QueryTimes == {95, 100, 101, 103, 105, 106, 107, 112, 120, 121, 124, 128, 140}

\* where _interpolate_ball_position puts the ball at the query time
BallPositions == {<<60, 40>>, <<90, 40>>}

NoResult == [pending |-> TRUE]

PositionCalls ==
    [fn : {"interpolate_position"}, player : Roster, positions : Timelines,
     timestamp : QueryTimes, ball : BallPositions, result : {NoResult}]

\* one call of _interpolate_position, as update makes it for every player
InterpolatePosition ==
    /\ call.fn = "interpolate_position"
    /\ call.result = NoResult
    /\ \E nx \in NoiseValues, ny \in NoiseValues :
           call' = [call EXCEPT !.result =
                       interpolate_position(call.player, call.positions,
                                            call.timestamp, call.ball, nx, ny)]
    /\ lastOp' = [op |-> "interpolate_position", arg |-> call.timestamp]
    /\ UNCHANGED <<replayVars, match_state, match_history>>

----------------------------------------------------------------------------
(* Timeline Builder: _build_position_timeline, _build_ball_timeline *)

(* The builders are applied to logs whose events all carry coordinates and *)
(* no freeze frame.  A sample is kept as [t, src]: its global time and the  *)
(* index of the event whose coordinates it holds (0 for the kick-off sample *)
(* of the ball), so that src is the arrival order.                          *)

RECURSIVE PositionTimelineUpTo(_, _, _)
\* the list position_timeline[p] after the loop has visited events[1..n]
PositionTimelineUpTo(log, p, n) ==
    IF n = 0 THEN << >>
    ELSE LET sofar == PositionTimelineUpTo(log, p, n - 1)
         IN  IF log[n].player = p
             THEN Append(sofar, [t |-> GlobalTime(log[n]), src |-> n])
             ELSE sofar

\* _build_position_timeline: one list per roster player, samples appended in
\* log order and returned as appended
build_position_timeline(log) ==
    [p \in Roster |-> PositionTimelineUpTo(log, p, Len(log))]

\* list.sort(key = time) places an element behind every element that is not
\* later than it
InsertByTime(sorted, s) ==
    LET k == Cardinality({i \in 1..Len(sorted) : sorted[i].t <= s.t})
    IN  SubSeq(sorted, 1, k) \o <<s>> \o SubSeq(sorted, k + 1, Len(sorted))

RECURSIVE SortByTimeUpTo(_, _)
SortByTimeUpTo(tl, n) ==
    IF n = 0 THEN << >> ELSE InsertByTime(SortByTimeUpTo(tl, n - 1), tl[n])

\* timeline.sort(key=lambda x: x[0]), a stable sort
SortByTime(tl) == SortByTimeUpTo(tl, Len(tl))

\* _build_ball_timeline: the centre spot one second ahead of the first
\* event's local time, one sample per event, then the sort
build_ball_timeline(log) ==
    LET kickoff == IF Len(log) = 0 THEN << >>
                   ELSE LET start == log[1].timestamp - 1
                        IN  <<[t |-> IF start < 0 THEN 0 ELSE start, src |-> 0]>>
    IN  SortByTime(kickoff \o [i \in 1..Len(log) |->
                                  [t |-> GlobalTime(log[i]), src |-> i]])

\* the logs the timelines are built from: those of the catalogue and a home
\* pass in first-half stoppage time
TimelineCatalogue ==
    EventCatalogue \cup {Ev(2950, 1, HomeTeam, "h1", "PASS", "COMPLETE")}

TimelineLogs ==
    {log \in UNION {[1..n -> TimelineCatalogue] : n \in 0..MaxLogLen} :
        LogOrdered(log) /\ ~ConstructorRaises(log)}

TimelineCalls == [fn : {"build_timelines"}, events : TimelineLogs,
                  result : {NoResult}]

\* the two builder calls of GameEngine.__init__
BuildTimelines ==
    /\ call.fn = "build_timelines"
    /\ call.result = NoResult
    /\ call' = [call EXCEPT !.result =
                   [position_timeline |-> build_position_timeline(call.events),
                    ball_timeline |-> build_ball_timeline(call.events)]]
    /\ UNCHANGED <<engineVars, synVars, objVars>>

----------------------------------------------------------------------------
(* Roster cache: _calculate_base_coordinates, _cache_player_data *)

(* A position name is the set of its words; `"Left" in position_name` is   *)
(* membership of the word.  A bench player has no position and is cached   *)
(* under the name "Unknown".                                                *)

Goalkeeper == {"Goalkeeper"}
RightMidfield == {"Right", "Midfield"}
Unknown == {"Unknown"}

\* _calculate_base_coordinates
calculate_base_coordinates(position_name, is_home_team) ==
    LET has(w) == w \in position_name
        base_pos ==
            IF has("Goalkeeper") THEN <<5, 40>>
            ELSE IF has("Defender")
            THEN IF has("Left") THEN <<30, 10>>
                 ELSE IF has("Right") THEN <<30, 70>>
                 ELSE <<25, 40>>
            ELSE IF has("Midfield")
            THEN IF has("Defensive") THEN <<45, 40>>
                 ELSE IF has("Attacking") THEN <<75, 40>>
                 ELSE IF has("Left") THEN <<60, 20>>
                 ELSE IF has("Right") THEN <<60, 60>>
                 ELSE <<60, 40>>
            ELSE IF has("Wing")
            THEN IF has("Left") THEN <<90, 10>>
                 ELSE IF has("Right") THEN <<90, 70>>
                 ELSE <<60, 40>>
            ELSE IF has("Forward") \/ has("Striker") THEN <<100, 40>>
            ELSE <<60, 40>>
    IN  IF is_home_team THEN base_pos
        ELSE <<120 - base_pos[1], 80 - base_pos[2]>>

\* the vertical shift of a player whose base point was taken `count` times
\* before: +5, -5, +10, -10, ...
SpreadOffset(count) ==
    LET offset_y == 5 * ((count + 1) \div 2)
    IN  IF count % 2 = 0 THEN 0 - offset_y ELSE offset_y

RECURSIVE CacheUpTo(_, _)
\* occupied_positions and the cached base points after the loops of
\* _cache_player_data have visited players[1..n]
CacheUpTo(players, n) ==
    IF n = 0 THEN [occupied |-> << >>, base |-> << >>]
    ELSE LET sofar   == CacheUpTo(players, n - 1)
             pos_key == calculate_base_coordinates(players[n].position,
                                                   players[n].is_home)
         IN  IF pos_key \in DOMAIN sofar.occupied
             THEN [occupied |-> [sofar.occupied EXCEPT ![pos_key] = @ + 1],
                   base |-> Append(sofar.base,
                               <<pos_key[1],
                                 pos_key[2] + SpreadOffset(sofar.occupied[pos_key])>>)]
             ELSE [occupied |-> sofar.occupied @@ (pos_key :> 1),
                   base |-> Append(sofar.base, pos_key)]

\* _cache_player_data: (base_x, base_y) of every player, in roster order
cache_player_data(players) == CacheUpTo(players, Len(players)).base

\* the players of one team: starters by role, then the bench
TeamPlayers(is_home, keepers, midfielders, bench) ==
    [i \in 1..(keepers + midfielders + bench) |->
        [is_home |-> is_home,
         position |-> IF i <= keepers THEN Goalkeeper
                      ELSE IF i <= keepers + midfielders THEN RightMidfield
                      ELSE Unknown]]

\* rosters: the home team's players, then the away team's
Rosters ==
    {TeamPlayers(TRUE, hk, hm, hb) \o TeamPlayers(FALSE, ak, am, ab) :
        hk \in 0..MaxPerRole, hm \in 0..MaxPerRole, hb \in 0..MaxBench,
        ak \in 0..MaxPerRole, am \in 0..MaxPerRole, ab \in 0..MaxBench}

RosterCalls == [fn : {"cache_player_data"}, players : Rosters,
                result : {NoResult}]

\* the call of _cache_player_data in GameEngine.__init__
CachePlayerData ==
    /\ call.fn = "cache_player_data"
    /\ call.result = NoResult
    /\ call' = [call EXCEPT !.result =
                   [base |-> cache_player_data(call.players)]]
    /\ UNCHANGED <<engineVars, synVars, objVars>>

----------------------------------------------------------------------------
(* Specifications *)

\* a session on the event-replay engine without the MatchState wrapper;
\* the synthetic engine is not in use
Init ==
    /\ InitEngine
    /\ WrapperAbsent
    /\ InitSynEngine
    /\ syn_events = << >>
    /\ ObjIdle
    /\ call = NoCall

Next ==
    \/ \E dt \in DTs : Tick(dt) /\ UNCHANGED <<synVars, objVars, call>>
    \/ \E t \in SeekTargets : SeekTo(t) /\ UNCHANGED <<synVars, objVars, call>>
    \/ \E s \in SpeedRequests : SetPlaybackSpeed(s) /\ UNCHANGED <<synVars, objVars, call>>

Spec == Init /\ [][Next]_vars

\* a session of update, seek_to_time and set_playback_speed on an engine
\* whose constructor returned; the main loop keeps calling update with a
\* positive frame time
FinishCatalogue ==
    { Ev(300,  1, AwayTeam, "a1", "PASS", "COMPLETE"),
      Ev(600,  1, HomeTeam, "h1", "SHOT", "GOAL"),
      Ev(2900, 1, AwayTeam, "a1", "PASS", "COMPLETE"),
      Ev(100,  2, HomeTeam, "h1", "SHOT", "GOAL") }

FinishLogs == {log \in Logs : \A i \in 1..Len(log) : log[i] \in FinishCatalogue}

InitFinish ==
    /\ Init
    /\ events \in FinishLogs

PositiveTick ==
    \E dt \in DTs \ {0} : TickToEnd(dt) /\ UNCHANGED <<synVars, objVars, call>>

NextFinish ==
    \/ \E dt \in DTs : TickToEnd(dt) /\ UNCHANGED <<synVars, objVars, call>>
    \/ \E t \in SeekTargets : SeekTo(t) /\ UNCHANGED <<synVars, objVars, call>>
    \/ \E s \in SpeedRequests : SetPlaybackSpeed(s) /\ UNCHANGED <<synVars, objVars, call>>

SpecFinish == InitFinish /\ [][NextFinish]_vars /\ WF_vars(PositiveTick)

\* a session that replays the log by update alone and never seeks
NextReplay ==
    \/ \E dt \in DTs : Tick(dt) /\ UNCHANGED <<synVars, objVars, call>>
    \/ \E s \in SpeedRequests : SetPlaybackSpeed(s) /\ UNCHANGED <<synVars, objVars, call>>

SpecReplay == Init /\ [][NextReplay]_vars

\* a session on the event-replay engine with mirror and history attached,
\* played at the initial speed by update alone
InitMirror ==
    /\ InitEngine
    /\ WrapperAttached
    /\ InitSynEngine
    /\ syn_events = << >>
    /\ ObjIdle
    /\ call = NoCall

NextMirrorReplay == \E dt \in DTs : Tick(dt) /\ UNCHANGED <<synVars, objVars, call>>

SpecMirrorReplay == InitMirror /\ [][NextMirrorReplay]_vars

\* the World States handed to from_game_state and sync_from_game_state: what
\* replaying a log of the catalogue leaves
SyncCatalogue ==
    EventCatalogue \cup {Ev(1300, 1, AwayTeam, "as", "PASS", "COMPLETE")}

SyncLogs ==
    {log \in UNION {[1..n -> SyncCatalogue] : n \in 0..MaxLogLen} :
        LogOrdered(log) /\ ~ConstructorRaises(log)}

GameStates == {Replay(log, Len(log)) : log \in SyncLogs}

\* no engine session runs while the objects are used directly
EnginesIdle ==
    /\ InitEngine
    /\ events = << >>
    /\ InitSynEngine
    /\ syn_events = << >>

\* logs of the sessions that tick and seek with the wrapper attached: a home
\* substitute's first event, alone and behind a goal
MirrorSeekLogs ==
    {<<Ev(1200, 1, HomeTeam, "hs", "PASS", "COMPLETE")>>,
     <<Ev(600, 1, HomeTeam, "h1", "SHOT", "GOAL"),
       Ev(1200, 1, HomeTeam, "hs", "PASS", "COMPLETE")>>}

MirrorSeekTargets == {0, 700}

\* a session on the event-replay engine with mirror and history attached,
\* played by update and seek_to_time
InitMirrorSeek ==
    /\ InitMirror
    /\ events \in MirrorSeekLogs

NextMirrorSeek ==
    \/ \E dt \in DTs : Tick(dt) /\ UNCHANGED <<synVars, objVars, call>>
    \/ \E t \in MirrorSeekTargets : SeekTo(t) /\ UNCHANGED <<synVars, objVars, call>>

SpecMirrorSeek == InitMirrorSeek /\ [][NextMirrorSeek]_vars

\* a MatchState built by MatchState() or from_game_state and then synced
InitSync ==
    /\ EnginesIdle
    /\ call = NoCall
    /\ match_state \in {DefaultMatchState}
                           \cup {FromGameState(gs) : gs \in GameStates}
    /\ match_history = NoHistory
    /\ ObjIdle

NextSync == \E gs \in GameStates : MirrorSync(gs) /\ UNCHANGED <<synVars, call, writes>>

SpecSync == InitSync /\ [][NextSync]_vars

\* a MatchState that is synced and serialised; a sync invalidates the vector
\* taken before it
NextVector ==
    \/ \E gs \in GameStates :
           MirrorSync(gs) /\ call' = NoCall /\ UNCHANGED <<synVars, writes>>
    \/ \E b \in BOOLEAN : ToVector(b)

SpecVector == InitSync /\ [][NextVector]_vars

\* test_match_state_copy: a MatchState, a copy of it, and writes to both
CopyTimes == {90}
CopyScores == {<<2, 1>>}
CopyGameStates == {Replay(<<Ev(1200, 1, HomeTeam, "hs", "PASS", "COMPLETE")>>, 1)}

InitCopy ==
    /\ EnginesIdle
    /\ call = NoCall
    /\ match_state \in {DefaultMatchState, FromGameState(InitialGameState)}
    /\ match_history = NoHistory
    /\ ObjIdle

NextCopy ==
    \/ \E t \in CopyTimes : MirrorSetTime(t) /\ UNCHANGED <<synVars, call, writes>>
    \/ \E sc \in CopyScores : MirrorSetScore(sc) /\ UNCHANGED <<synVars, call, writes>>
    \/ \E f \in Containers :
           /\ writes < MaxWrites
           /\ MirrorPoke(f)
           /\ writes' = writes + 1
           /\ UNCHANGED <<synVars, call>>
    \/ \E gs \in CopyGameStates : MirrorSync(gs) /\ UNCHANGED <<synVars, call, writes>>
    \/ TakeCopy /\ UNCHANGED <<synVars, call, writes>>
    \/ \E t \in CopyTimes : HeldSetTime(t) /\ UNCHANGED <<synVars, call, writes>>
    \/ \E f \in Containers :
           /\ writes < MaxWrites
           /\ HeldPoke(f)
           /\ writes' = writes + 1
           /\ UNCHANGED <<synVars, call>>

SpecCopy == InitCopy /\ [][NextCopy]_vars

\* test_match_history: a MatchState whose time a caller moves freely, and a
\* MatchHistory recording it
HistTimes == 0..HistMaxTime
HistPokes == {"positions"}

InitHistory ==
    /\ EnginesIdle
    /\ call = NoCall
    /\ match_state = FromGameState(InitialGameState)
    /\ match_history = NewHistory(HistCap, HistInterval)
    /\ ObjIdle

NextHistory ==
    \/ \E t \in HistTimes : MirrorSetTime(t) /\ UNCHANGED <<synVars, call, writes>>
    \/ \E f \in HistPokes :
           /\ MirrorPoke(f)
           /\ UNCHANGED <<synVars, call, writes>>
    \/ \E force \in BOOLEAN : HistoryRecord(force) /\ UNCHANGED <<synVars, call, writes>>
    \/ \E t \in HistTimes : HistoryGet(t) /\ UNCHANGED <<synVars, call, writes>>
    \/ \E f \in HistPokes :
           /\ HeldPoke(f)
           /\ UNCHANGED <<synVars, call, writes>>
    \/ HistoryClear /\ UNCHANGED <<synVars, call, writes>>

SpecHistory == InitHistory /\ [][NextHistory]_vars

\* a player's timeline, a query time and a ball position are drawn, and
\* _interpolate_position is applied to them
InitPosition ==
    /\ EnginesIdle
    /\ WrapperAbsent
    /\ ObjIdle
    /\ call \in PositionCalls

NextPosition == InterpolatePosition /\ UNCHANGED <<synVars, objVars>>

SpecPosition == InitPosition /\ [][NextPosition]_vars

\* GameEngine.__init__ building the timelines of a log
InitTimeline ==
    /\ EnginesIdle
    /\ WrapperAbsent
    /\ ObjIdle
    /\ call \in TimelineCalls

NextTimeline == BuildTimelines

SpecTimeline == InitTimeline /\ [][NextTimeline]_vars

\* GameEngine.__init__ caching the base coordinates of a roster
InitRoster ==
    /\ EnginesIdle
    /\ WrapperAbsent
    /\ ObjIdle
    /\ call \in RosterCalls

NextRoster == CachePlayerData

SpecRoster == InitRoster /\ [][NextRoster]_vars

\* a session on the synthetic engine; the event-replay engine is not in use
InitSyn ==
    /\ InitEngine
    /\ WrapperAbsent
    /\ events = << >>
    /\ InitSynEngine
    /\ ObjIdle
    /\ call = NoCall

NextSyn ==
    \/ \E dt \in SynDTs : SynUpdate(dt) /\ UNCHANGED <<engineVars, objVars, call>>
    \/ \E t \in SynSeekTargets : SynSeekStart(t) /\ UNCHANGED <<engineVars, objVars, call>>
    \/ SynSeekStep /\ UNCHANGED <<engineVars, objVars, call>>
    \/ \E s \in SynSpeedRequests : SynSetSpeed(s) /\ UNCHANGED <<engineVars, objVars, call>>

SpecSyn == InitSyn /\ [][NextSyn]_vars

----------------------------------------------------------------------------
(* Properties *)

HomeGoalLog == << Ev(600, 1, HomeTeam, "h1", "SHOT", "GOAL") >>

\* global time of the last event of a non-empty log
FinalTime(log) == GlobalTime(log[Len(log)])

\* the latest global time found in a non-empty log
LogEndTime(log) ==
    LET ts == {GlobalTime(log[i]) : i \in 1..Len(log)}
    IN  CHOOSE m \in ts : \A u \in ts : u <= m

\* number of events ahead of the first event whose global time is > t
FirstAfter(log, t) ==
    IF \E i \in 1..Len(log) : GlobalTime(log[i]) > t
    THEN (CHOOSE i \in 1..Len(log) :
            /\ GlobalTime(log[i]) > t
            /\ \A j \in 1..(i - 1) : GlobalTime(log[j]) <= t) - 1
    ELSE Len(log)

HasBall(st) == {p \in DOMAIN st.players : st.players[p]}

\* C1: with the log of one home goal at 600 s, SeekTo(700) on a freshly
\* constructed engine leaves score_home = 1 and SeekTo(500) leaves it 0.
C1_SeekGoalScore ==
    [][(events = HomeGoalLog /\ lastOp.op = "init" /\ lastOp'.op = "seek")
        => /\ lastOp'.arg = 700 => current_state'.score_home = 1
           /\ lastOp'.arg = 500 => current_state'.score_home = 0]_vars

\* C2: a log replayed from kickoff by update alone until is_finished ends
\* with the scores and the possession team that one SeekTo(final time) gives
\* on a fresh engine.
C2_ReplayEqualsSeek ==
    (~aborted /\ Len(events) > 0 /\ is_finished)
        => LET s == SeekState(events, FinalTime(events), 0)
           IN  /\ current_state.score_home = s.score_home
               /\ current_state.score_away = s.score_away
               /\ current_state.possession_team = s.possession_team

\* C3: update(0) called right after seek_to_time(t) leaves the World State
\* as the seek left it and applies no event.
C3_SeekThenTickZero ==
    [][(lastOp.op = "seek" /\ lastOp'.op = "tick" /\ lastOp'.arg = 0)
        => /\ current_state' = current_state
           /\ current_event_index' = current_event_index]_vars

\* C4: when update returns, the cursor is at the end of the log or the
\* event at the cursor lies strictly after the new current time.
C4_TickAppliesAllDue ==
    lastOp.op = "tick"
        => \/ is_finished
           \/ GlobalTime(events[current_event_index + 1]) > current_timestamp

\* C5: after seek_to_time(t) the cursor is the index of the first event with
\* global time > t and the World State is the kickoff state with exactly the
\* events before that index applied in log order.
C5_SeekCursorAndState ==
    lastOp.op = "seek"
        => LET k == FirstAfter(events, lastOp.arg)
           IN  /\ current_event_index = k
               /\ current_state =
                      [Replay(events, k) EXCEPT !.timestamp = lastOp.arg]

\* C6: a seek_to_time beyond the end of the log is clamped: the current
\* timestamp after the call does not exceed the end time of the log.
C6_SeekClamped ==
    (lastOp.op = "seek" /\ Len(events) > 0)
        => current_timestamp <= LogEndTime(events)

\* C7: the speed multiplier of either engine always lies in [0.1, 10.0],
\* whatever values were requested.
C7_SpeedInRange ==
    /\ playback_speed \in SpeedMin..SpeedMax
    /\ syn_playback_speed \in SpeedMin..SpeedMax

\* C8: in every reachable World State at most one tracked player has its
\* possession flag set.
C8_AtMostOneHasBall == Cardinality(HasBall(current_state)) <= 1

\* the flag has moved on to a substitute inserted by its first event
C8_Witness ==
    /\ current_event_index >= 2
    /\ events[1].player \in Starters
    /\ DOMAIN current_state.players = Starters \cup {"hs"}
    /\ HasBall(current_state) = {"hs"}

C10_MalformedEventSkipped ==
    [][(/\ lastOp'.op = "tick"
        /\ current_event_index < Len(events)
        /\ current_timestamp' >= GlobalTime(events[current_event_index + 1]))
        => LET e == events[current_event_index + 1]
           IN  /\ current_event_index' = current_event_index + 1
               /\ e.team = NoTeam =>
                    /\ current_state'.score_home = current_state.score_home
                    /\ current_state'.score_away = current_state.score_away
                    /\ current_state'.possession_team =
                           current_state.possession_team
               /\ e.player = NoPlayer => HasBall(current_state') = {}]_vars

\* C11: after every update of a session driven by update alone, the mirror's
\* position array has (players tracked in the World State) + 1 rows, also
\* when the update inserted a substitute.
C11_RowsTrackedPlusBall ==
    (match_state # NoMirror /\ lastOp.op = "tick")
        => Len(match_state.positions) =
               Cardinality(DOMAIN current_state.players) + 1

\* the update has just inserted the substitute and the mirror has grown
C11_Witness ==
    /\ lastOp.op = "tick"
    /\ current_state.last_event = current_event_index
    /\ current_event_index >= 1
    /\ events[current_event_index].player = "hs"
    /\ Len(match_state.positions) = Cardinality(Starters \cup {"hs"}) + 1

\* C13: after every update the mirror agrees with the World State on time,
\* period, both scores, possession team (0 home, 1 away) and possession
\* index (index of the player whose flag is set, or none).
C13_MirrorAgreesWithWorld ==
    (match_state # NoMirror /\ lastOp.op = "tick")
        => /\ match_state.time = current_state.timestamp
           /\ match_state.period = current_state.period
           /\ match_state.score =
                  <<current_state.score_home, current_state.score_away>>
           /\ match_state.possession_team =
                  (IF current_state.possession_team = AwayTeam THEN 1 ELSE 0)
           /\ \A p \in DOMAIN current_state.players :
                  current_state.players[p] <=>
                      match_state.ball_owner_idx =
                          match_state.player_id_to_idx[p]
           /\ HasBall(current_state) = {}
                  => match_state.ball_owner_idx = NoIdx

\* C12: in every State Mirror, after construction and after every sync, the
\* ball occupies row N, N the number of registered player ids (the last row),
\* every registered index is < N, and a sync that meets k unseen ids grows
\* the position, velocity, stamina and team-id arrays by exactly k each.
C12_BallRowIsN ==
    /\ [](match_state # NoMirror =>
            /\ Len(match_state.positions) - 1 = num_players(match_state)
            /\ \A p \in DOMAIN match_state.player_id_to_idx :
                   match_state.player_id_to_idx[p] < num_players(match_state))
    /\ [][lastOp'.op = "sync" =>
            LET k == Cardinality(DOMAIN lastOp'.arg.players
                                     \ DOMAIN match_state.player_id_to_idx)
            IN  /\ Len(match_state'.positions) =
                       Len(match_state.positions) + k
                /\ Len(match_state'.velocities) =
                       Len(match_state.velocities) + k
                /\ Len(match_state'.stamina) = Len(match_state.stamina) + k
                /\ Len(match_state'.team_ids) =
                       Len(match_state.team_ids) + k]_vars

\* C14: copy() is a deep copy: after c = m.copy() a later mutation of m (time,
\* score, an in-place write to an array or id map, a growing sync) leaves
\* every field of c unchanged, and a mutation of c leaves m unchanged.
C14_CopyIsDeep ==
    [][/\ (held # NoMirror
             /\ lastOp'.op \in {"set_time", "set_score", "poke", "sync"})
          => held' = held
       /\ lastOp'.op \in {"held_set_time", "held_poke"}
          => match_state' = match_state]_vars

\* the original has grown by a sync after the copy was taken, and the copy
\* has been written in place
C14_Witness ==
    /\ held # NoMirror
    /\ Len(match_state.positions) = Len(held.positions) + 1
    /\ held.positions[1] = <<30, 40>>
    /\ match_state.positions[1] # <<30, 40>>
    /\ lastOp.op = "held_poke"

\* C15: after any sequence of record calls, forced or not, the history holds
\* at most max_snapshots snapshots, and a record that would exceed the
\* capacity evicts the oldest retained snapshot (first in, first out).
C15_BoundedFifo ==
    /\ [](match_history # NoHistory =>
            Len(match_history.snapshots) <= match_history.max_snapshots)
    /\ [][(/\ lastOp'.op = "record"
           /\ lastOp'.arg.result
           /\ Len(match_history.snapshots) = match_history.max_snapshots)
          => match_history'.snapshots =
                 Append(Tail(match_history.snapshots), match_state)]_vars

\* a record has just been accepted by a full history
C15_Witness ==
    /\ lastOp.op = "record"
    /\ lastOp.arg.result
    /\ lastOp.arg.before = HistCap
    /\ match_history.snapshots[1].time # match_history.snapshots[2].time

\* C16: when record is never called with force, any two retained snapshots
\* have capture times at least the interval apart, also when the times
\* presented to record move backwards.
C16_UnforcedSpacing ==
    (match_history # NoHistory /\ ~ghost.forced)
        => \A i \in 1..Len(match_history.snapshots) :
               \A j \in (i + 1)..Len(match_history.snapshots) :
                   Abs(match_history.snapshots[i].time
                           - match_history.snapshots[j].time)
                       >= match_history.interval

\* an unforced record was refused for a time that had moved backwards, with
\* two snapshots retained
C16_Witness ==
    /\ ~ghost.forced
    /\ lastOp.op = "record"
    /\ ~lastOp.arg.result
    /\ Len(match_history.snapshots) >= 2
    /\ match_state.time < match_history.last_snapshot_time

\* C17: get_state_at_time(t) on a non-empty history returns a copy of a
\* retained snapshot with minimal |snapshot.time - t|, with the content it
\* had when recorded; mutating the returned object does not change the
\* history; on an empty history it returns none.
C17_NearestCopy ==
    /\ [](match_history # NoHistory =>
            \A k \in 1..Len(match_history.snapshots) :
                match_history.snapshots[k] = ghost.snap_orig[k])
    /\ []((match_history # NoHistory /\ lastOp.op = "get") =>
            IF match_history.snapshots = << >> THEN held = NoMirror
            ELSE /\ held # NoMirror
                 /\ \E k \in 1..Len(match_history.snapshots) :
                        /\ held = ghost.snap_orig[k]
                        /\ \A j \in 1..Len(match_history.snapshots) :
                               Abs(match_history.snapshots[k].time - lastOp.arg)
                                   <= Abs(match_history.snapshots[j].time
                                              - lastOp.arg))
    /\ [][lastOp'.op \in {"held_set_time", "held_poke"}
             => match_history' = match_history]_vars

\* the later of two snapshots was the nearest and has been returned, after
\* the recorded mirror had moved on
C17_Witness ==
    /\ lastOp.op = "get"
    /\ held # NoMirror
    /\ Len(match_history.snapshots) = 2
    /\ held = match_history.snapshots[2]
    /\ held.time # match_history.snapshots[1].time
    /\ held.time # lastOp.arg
    /\ match_state.time # held.time
    /\ match_state.positions # held.positions

\* the call of C18 has returned: samples (100, 50, 40) and (106, 60, 40),
\* query time 103
C18_Case(t) ==
    /\ call.fn = "interpolate_position"
    /\ call.result # NoResult
    /\ call.positions = <<Sample(100, 50, 40), Sample(106, 60, 40)>>
    /\ call.timestamp = t

\* C18: for the samples (t=100, x=50, y=40) and (t=106, x=60, y=40) the
\* interpolated position at t=103 has x strictly between 50 and 60, x not
\* equal to 55, and y equal to 40.
C18_EasedOffMidpoint ==
    C18_Case(103) =>
        /\ 50 * call.result.den < call.result.x
        /\ call.result.x < 60 * call.result.den
        /\ call.result.x # 55 * call.result.den
        /\ call.result.y = 40 * call.result.den

\* C18, amended: at t=103 x is exactly 55 (the quintic ease-in-out curve
\* maps one half to one half) and y is 40; at t=101 and t=105 x is strictly
\* between 50 and 60, off the straight line, and y is 40.
C18_EasedThroughMidpoint ==
    /\ C18_Case(103) =>
           /\ call.result.x = 55 * call.result.den
           /\ call.result.y = 40 * call.result.den
    /\ \A t \in {101, 105} :
           C18_Case(t) =>
               /\ 50 * call.result.den < call.result.x
               /\ call.result.x < 60 * call.result.den
               /\ 6 * call.result.x #
                      (6 * 50 + 10 * (t - 100)) * call.result.den
               /\ call.result.y = 40 * call.result.den

\* the query at t=103 has returned x = 55
C18_Witness ==
    /\ C18_Case(103)
    /\ call.result.x = 55 * call.result.den
    /\ lastOp.op = "interpolate_position"

\* C19: for a home-side entity with zero samples the position returned is
\* the tactical one, not the static base coordinate: with the ball at
\* (90, 40) the returned x is strictly greater than the entity's base x.
C19_ZeroSamplesTactical ==
    (/\ call.fn = "interpolate_position"
     /\ call.result # NoResult
     /\ call.positions = << >>
     /\ PlayerTeam[call.player] = HomeTeam
     /\ call.ball = <<90, 40>>)
        => call.result.x > BaseXY[call.player][1] * call.result.den

\* C20: the global clock is monotonic over the log: an event that precedes
\* another in the log (ordered by period, then local time, local times free
\* to run past the nominal period length) has a global time <= the other's.
C20_GlobalClockMonotonic ==
    ~aborted =>
        \A i \in 1..Len(events) : \A j \in i..Len(events) :
            GlobalTime(events[i]) <= GlobalTime(events[j])

\* C25: the World State reached by seek_to_time(t) depends only on t and the
\* log: whatever Ticks and seeks came before, cursor, scores, period,
\* possession team and tracked-player set after the call are those a fresh
\* engine over the same log has after seek_to_time(t).
C25_SeekIgnoresHistory ==
    lastOp.op = "seek"
        => LET fresh == SeekState(events, lastOp.arg, 0)
           IN  /\ current_event_index = SeekIndex(events, lastOp.arg, 0)
               /\ current_state.score_home = fresh.score_home
               /\ current_state.score_away = fresh.score_away
               /\ current_state.period = fresh.period
               /\ current_state.possession_team = fresh.possession_team
               /\ DOMAIN current_state.players = DOMAIN fresh.players

\* C30: the team-id entry of every State Mirror row equals the team of the
\* player registered at that index (0 home, 1 away), for players present at
\* construction and for players appended later by a sync.
C30_TeamIdsMatchRoster ==
    match_state # NoMirror
        => \A p \in DOMAIN match_state.player_id_to_idx :
               match_state.team_ids[match_state.player_id_to_idx[p] + 1] =
                   (IF PlayerTeam[p] = AwayTeam THEN 1 ELSE 0)

\* C23: to_vector() has length 5 + 2R and to_vector(True) length 5 + 4R, R the
\* number of position rows; entries 1..5 are time/5400, period, home score,
\* away score, possession team; then x and y of every position row in row
\* order, the ball's row (the last one, the one get_ball_position reads)
\* closing the block; then, when asked for, vx and vy of every velocity row in
\* row order.
C23_VectorLayout ==
    call.fn = "to_vector"
        => LET v == call.result
               m == match_state
               R == Len(m.positions)
           IN  /\ Len(v) = IF call.include_velocities THEN 5 + 4 * R
                                                       ELSE 5 + 2 * R
               /\ v[1] = <<m.time, 5400>>
               /\ v[2] = <<m.period, 1>>
               /\ v[3] = <<m.score[1], 1>>
               /\ v[4] = <<m.score[2], 1>>
               /\ v[5] = <<m.possession_team, 1>>
               /\ \A i \in 1..R :
                      /\ v[5 + 2 * i - 1] = <<m.positions[i][1], 120>>
                      /\ v[5 + 2 * i] = <<m.positions[i][2], 120>>
               /\ v[5 + 2 * R - 1][1] = m.positions[Len(m.positions)][1]
               /\ v[5 + 2 * R][1] = m.positions[Len(m.positions)][2]
               /\ call.include_velocities
                      => \A i \in 1..R :
                             /\ v[5 + 2 * R + 2 * i - 1] = <<m.velocities[i][1], 1>>
                             /\ v[5 + 2 * R + 2 * i] = <<m.velocities[i][2], 1>>

\* a grown mirror with a moving row serialised with its velocities
C23_Witness ==
    /\ call.fn = "to_vector"
    /\ call.include_velocities
    /\ num_players(match_state) >= 3
    /\ \E i \in 1..Len(match_state.velocities) :
           match_state.velocities[i] # <<0, 0>>
    /\ match_state.positions[Len(match_state.positions)] # <<0, 0>>

\* C24: on a non-empty, time-sorted timeline a query at exactly the time of a
\* sample returns the raw (x, y) of the earliest sample with that time, with
\* small and with sparse neighbouring gaps alike; and every blend weight a
\* call uses lies in [0, 1].
C24_RawAtSampleTime ==
    (call.fn = "interpolate_position" /\ call.result # NoResult)
        => LET tl   == call.positions
               hits == {i \in 1..Len(tl) : tl[i].t = call.timestamp}
           IN  /\ (TimeSorted(tl) /\ hits # {})
                      => LET k == CHOOSE i \in hits : \A j \in hits : i <= j
                         IN  /\ call.result.x = tl[k].x * call.result.den
                             /\ call.result.y = tl[k].y * call.result.den
               /\ \A w \in call.result.blend :
                      w[2] > 0 /\ 0 <= w[1] /\ w[1] <= w[2]

\* a query at 106, where two samples share the time, the gap before is 6 s
\* and the gap after 15 s
C24_Witness ==
    /\ call.fn = "interpolate_position"
    /\ call.result # NoResult
    /\ call.timestamp = 106
    /\ call.positions = SampleCatalogue

\* a list of samples in non-decreasing time order whose equal-time samples
\* are in arrival order
C21_Ordered(tl) ==
    \A i, j \in 1..Len(tl) :
        i < j => \/ tl[i].t < tl[j].t
                 \/ tl[i].t = tl[j].t /\ tl[i].src < tl[j].src

\* C21: every timeline the builder returns, each player's and the ball's, is
\* non-decreasing in time, and samples of one entity with equal time are in
\* arrival order.
C21_TimelinesSorted ==
    (call.fn = "build_timelines" /\ call.result # NoResult)
        => /\ \A p \in Roster : C21_Ordered(call.result.position_timeline[p])
           /\ C21_Ordered(call.result.ball_timeline)

\* the ball half of C21 alone
C21_BallSorted ==
    (call.fn = "build_timelines" /\ call.result # NoResult)
        => C21_Ordered(call.result.ball_timeline)

\* C22: the base formation coordinates cached for a roster are pairwise
\* distinct points, whatever the number of players per role, on both teams,
\* bench players without a role included.
C22_BasePointsDistinct ==
    (call.fn = "cache_player_data" /\ call.result # NoResult)
        => \A i, j \in 1..Len(call.result.base) :
               i # j => call.result.base[i] # call.result.base[j]

\* C26: after every Tick the ids registered in the State Mirror are the
\* players tracked in the World State, and the position array has one row
\* per tracked player plus the ball's, in every interleaving of Tick and
\* SeekTo.
C26_MirrorTracksWorld ==
    (lastOp.op = "tick" /\ match_state # NoMirror)
        => /\ DOMAIN match_state.player_id_to_idx = DOMAIN current_state.players
           /\ Len(match_state.positions)
                  = Cardinality(DOMAIN current_state.players) + 1

\* the capture times of the retained snapshots increase strictly in storage
\* order
C29_TimesIncrease ==
    match_history # NoHistory
        => \A i \in 1..Len(match_history.snapshots) :
               \A j \in (i + 1)..Len(match_history.snapshots) :
                   match_history.snapshots[i].time
                       < match_history.snapshots[j].time

\* a Tick that ends before the last retained snapshot's time plus the
\* interval leaves the snapshot list as it was
C29_TickRecordsNothing ==
    (/\ lastOp'.op = "tick"
     /\ match_history # NoHistory
     /\ match_history.snapshots # << >>
     /\ current_timestamp'
            < match_history.snapshots[Len(match_history.snapshots)].time
                  + match_history.interval)
        => match_history'.snapshots = match_history.snapshots

\* C29: the engine never forces a record and never clears the history; the
\* capture times of the retained snapshots are then strictly increasing in
\* storage order, and after a backward SeekTo no Tick records a snapshot
\* before the current time has reached the last retained snapshot's time
\* plus the interval.
C29_NoSnapshotUntilCaughtUp ==
    []C29_TimesIncrease /\ [][C29_TickRecordsNothing]_vars

\* a Tick after a backward SeekTo ended before the last retained snapshot's
\* time, with two snapshots retained
C29_Witness ==
    /\ lastOp.op = "tick"
    /\ match_history # NoHistory
    /\ Len(match_history.snapshots) >= 2
    /\ current_timestamp < match_history.last_snapshot_time
    /\ current_timestamp > 0

\* a turn of seek_to_time's loop that changes the engine's state
C28_LoopTurn == <<SynSeekStep /\ UNCHANGED <<engineVars, objVars, call>>>>_vars

\* while the loop is short of the target, a turn of it changes the state: the
\* call does not repeat one state for ever
C28_LoopAdvances ==
    (syn_pc = "seeking" /\ syn_timestamp < syn_target) => ENABLED C28_LoopTurn

\* the clock is at or past the target and exactly the events due at the clock
\* have been applied, once each, to the state of the last reset
C28_Returned ==
    /\ syn_timestamp >= syn_target
    /\ syn_event_index =
           Cardinality({i \in 1..Len(syn_events) :
                           syn_events[i].timestamp <= syn_timestamp})
    /\ syn_state =
           [SynDrain(syn_events, 0, SynInitialState, syn_timestamp).state
               EXCEPT !.timestamp = syn_timestamp]

\* the step on which seek_to_time returns establishes C28_Returned
C28_OnReturn == (syn_pc = "seeking" /\ syn_pc' = "idle") => C28_Returned'

\* C28: seek_to_time(target) terminates for every target and every speed
\* set_speed accepts, and on return current_timestamp >= target with every
\* event whose timestamp is <= current_timestamp applied exactly once since
\* the last reset.
C28_SeekTerminates == []C28_LoopAdvances /\ [][C28_OnReturn]_vars

\* the return half of C28 alone, over calls that do return
C28_ReturnHalf == [][C28_OnReturn]_vars

\* a step of update: the cursor stays or moves to the next log position and
\* not past the end; the event applied, if any, is the one at the new
\* position; a finished replay stays finished
C27_TickStep ==
    lastOp'.op = "tick"
        => /\ current_event_index' >= current_event_index
           /\ current_event_index' <= Len(events)
           /\ \/ /\ current_event_index' = current_event_index
                 /\ current_state'.last_event = current_state.last_event
              \/ /\ current_event_index' = current_event_index + 1
                 /\ current_state'.last_event = current_event_index'
           /\ is_finished => is_finished'

\* a call of seek_to_time
C27_Seek == lastOp'.op = "seek" /\ NextFinish

\* C27: from every reachable state, if seek_to_time is called no more and
\* update keeps being called with dt > 0, is_finished() becomes true and
\* stays true; and under update the cursor never decreases, never exceeds
\* the log length, and the events are applied in log order, each at most
\* once.
C27_ReplayFinishes ==
    /\ []<><<C27_Seek>>_vars \/ <>[]is_finished
    /\ [][C27_TickStep]_vars

\* the replay has finished by ticks after a seek left it unfinished, with
\* every event of a full log applied
C27_Witness ==
    /\ is_finished
    /\ lastOp.op = "tick"
    /\ lastOp.arg > 0
    /\ Len(events) = MaxLogLen
    /\ current_timestamp > MaxTime

TypeOK ==
    /\ current_event_index \in 0..Len(events)
    /\ current_timestamp \in 0..MaxTime
    /\ playback_speed \in SpeedMin..SpeedMax
    /\ syn_event_index \in 0..Len(syn_events)

====
